---- MODULE Spec2Model ----
(***************************************************************************)
(* A model of gridplayer's 6-DOF SEI extraction (geo/parse_sei.py): the    *)
(* BitReader, the TS demuxer extract_h265_nal_from_ts, the tag search      *)
(* find_6dof_extension_in_nal, the decoder read_sei_6dof and the pipeline  *)
(* process_ts_file.                                                        *)
(*                                                                         *)
(* Representation.  A byte is an integer 0..255 and a bytes object is a    *)
(* sequence of bytes; Python's 0-based index i is position i+1 here.       *)
(* Python integers are unbounded while TLC's are 32 bits wide, so the      *)
(* accumulator BitReader.nextbits and the value get_bits returns are kept  *)
(* as their binary digits, most significant first: `<< 8 | b` appends the  *)
(* eight digits of b, `>> k` drops the last k digits and `& ((1<<n)-1)`    *)
(* keeps the last n.  A Python exception is an outcome `exc` of the        *)
(* operator that models the raising function ("none" when it returns).     *)
(***************************************************************************)
EXTENDS Integers, Sequences, FiniteSets, TLC

VARIABLES
    ts,             \* process_ts_file: the argument `data`
    pc,             \* process_ts_file / read_sei_6dof: position in the code
    i,              \* extract_h265_nal_from_ts: the loop variable i
    nal_data,       \* extract_h265_nal_from_ts: nal_data, then process_ts_file's
    start_of_nal,   \* extract_h265_nal_from_ts: start_of_nal
    new_nal_data,   \* process_ts_file: new_nal_data (None or a slice)
    reader,         \* the BitReader object
    sei,            \* read_sei_6dof: the SEI_6DOF object being filled
    fov_info_array, \* read_sei_6dof: fov_info_array
    decoded,        \* process_ts_file: (sei_c, fov_info_array) as returned
    result,         \* process_ts_file: what the call returned or raised
    calls,          \* the functions process_ts_file has called, in order
    last,           \* BitReader: the last operation called, with its outcome
    nops,           \* BitReader: number of operations called so far
    returns,        \* BitReader: what the operations called so far returned
    GLOBAL_STATUS,  \* init_server: the module-level list GLOBAL_STATUS
    status_calls,   \* init_server: the update_global_status calls made so far
    media_track,    \* VlcPlayerBase: self.media_track (None or a MediaTrack)
    media_input,    \* VlcPlayerBase: self.media_input (is_live and length)
    media_track_extract_attempted,
                    \* VlcPlayerBase: self._media_track_extract_attempted
    player_pc,      \* VlcPlayerBase: the stage of the load sequence
    player_calls    \* VlcPlayerBase: the calls the load sequence made, in order

vars == <<ts, pc, i, nal_data, start_of_nal, new_nal_data, reader, sei,
          fov_info_array, decoded, result, calls, last, nops, returns,
          GLOBAL_STATUS, status_calls, media_track, media_input,
          media_track_extract_attempted, player_pc, player_calls>>

pipelineVars == <<ts, pc, i, nal_data, start_of_nal, new_nal_data, sei,
                  fov_info_array, decoded, result, calls>>

serverVars == <<GLOBAL_STATUS, status_calls>>

playerVars == <<media_track, media_input, media_track_extract_attempted,
                player_pc, player_calls>>

(***************************************************************************)
(* Bounds of the model.                                                    *)
(***************************************************************************)
\* Most update_global_status calls in one run.
MaxStatusCalls == 3

\* Most load_video calls on one player.
MaxLoads == 2

\* Longest buffer handed to a free-standing BitReader.
MaxBufLen == 2
\* Number of BitReader operations called in a row on one reader.
MaxOps == 3

(***************************************************************************)
(* Bytes and binary digits.                                                *)
(***************************************************************************)
Byte == 0..255

Pow2(n) == 2 ^ n

\* The eight binary digits of byte b, most significant first.
ByteBits(b) == [k \in 1..8 |-> (b \div Pow2(8 - k)) % 2]

Zeros(n) == [k \in 1..n |-> 0]

\* The integer a digit sequence denotes (used for fields of at most 16 bits).
RECURSIVE Val(_)
Val(bits) ==
    IF bits = <<>> THEN 0
    ELSE 2 * Val(SubSeq(bits, 1, Len(bits) - 1)) + bits[Len(bits)]

\* x >> k for k >= 0.
Shr(bits, k) == SubSeq(bits, 1, Len(bits) - k)

\* x & ((1 << n) - 1) for n >= 0, as exactly n digits.
LowBits(bits, n) ==
    IF Len(bits) >= n THEN SubSeq(bits, Len(bits) - n + 1, Len(bits))
    ELSE Zeros(n - Len(bits)) \o bits

\* All digits of a byte sequence, in reading order.
RECURSIVE BitsOf(_)
BitsOf(bytes) ==
    IF bytes = <<>> THEN <<>>
    ELSE ByteBits(Head(bytes)) \o BitsOf(Tail(bytes))

(***************************************************************************)
(* BitReader.                                                              *)
(***************************************************************************)
\* BitReader.refill: the while loop.
RECURSIVE refill(_)
refill(r) ==
    IF r.nextbits_cnt <= 56 /\ r.bytes_remaining > 0
    THEN refill([r EXCEPT !.byte_pos = @ + 1,
                          !.bytes_remaining = @ - 1,
                          !.nextbits = @ \o ByteBits(r.data[r.byte_pos + 1]),
                          !.nextbits_cnt = @ + 8])
    ELSE r

\* BitReader.__init__.
BitReader(buffer) ==
    refill([data |-> buffer, bytes_remaining |-> Len(buffer), byte_pos |-> 0,
            bit_pos |-> 0, nextbits |-> <<>>, nextbits_cnt |-> 0])

\* get_bits returning the n lowest bits of the accumulator.
get_bits_LowEnd(r, n) ==
    LET r1 == IF r.nextbits_cnt < n THEN refill(r) ELSE r
        sh == r1.nextbits_cnt - n
    IN  IF sh < 0
        THEN [exc |-> "ValueError", val |-> <<>>, r |-> r1]
        ELSE [exc |-> "none",
              val |-> LowBits(r1.nextbits, n),
              r   |-> [r1 EXCEPT !.nextbits_cnt = sh,
                                 !.nextbits = LowBits(r1.nextbits, sh)]]

\* BitReader.get_bits.  `nextbits >> (nextbits_cnt - n)` raises ValueError
\* (negative shift count) when the count is negative, before any assignment.
get_bits(r, n) ==
    LET r1 == IF r.nextbits_cnt < n THEN refill(r) ELSE r
        sh == r1.nextbits_cnt - n
    IN  IF sh < 0
        THEN [exc |-> "ValueError", val |-> <<>>, r |-> r1]
        ELSE [exc |-> "none",
              val |-> LowBits(Shr(r1.nextbits, sh), n),
              r   |-> [r1 EXCEPT !.nextbits_cnt = sh,
                                 !.nextbits = LowBits(r1.nextbits, sh)]]

\* peek_bits consuming what it returns.
peek_bits_Consuming(r, n) == get_bits(r, n)

\* BitReader.peek_bits.
peek_bits(r, n) ==
    LET r1 == IF r.nextbits_cnt < n THEN refill(r) ELSE r
        sh == r1.nextbits_cnt - n
    IN  IF sh < 0
        THEN [exc |-> "ValueError", val |-> <<>>, r |-> r1]
        ELSE [exc |-> "none", val |-> LowBits(Shr(r1.nextbits, sh), n), r |-> r1]

\* BitReader.skip_bits.  nextbits_cnt is decremented first; `1 << nextbits_cnt`
\* then raises ValueError when the count went negative, leaving it negative.
skip_bits(r, n) ==
    LET r1 == IF r.nextbits_cnt < n THEN refill(r) ELSE r
        cnt == r1.nextbits_cnt - n
    IN  IF cnt < 0
        THEN [exc |-> "ValueError", val |-> <<>>,
              r |-> [r1 EXCEPT !.nextbits_cnt = cnt]]
        ELSE [exc |-> "none", val |-> <<>>,
              r |-> [r1 EXCEPT !.nextbits_cnt = cnt,
                               !.nextbits = LowBits(r1.nextbits, cnt)]]

\* skip_to_byte_boundary skipping the bits already consumed of a byte
\* instead of the bits left of it.
skip_to_byte_boundary_ConsumedPart(r) ==
    LET nskip == (8 - (r.nextbits_cnt % 8)) % 8
    IN  IF nskip > 0 THEN skip_bits(r, nskip)
        ELSE [exc |-> "none", val |-> <<>>, r |-> r]

\* BitReader.skip_to_byte_boundary.
skip_to_byte_boundary(r) ==
    LET nskip == r.nextbits_cnt % 8
    IN  IF nskip > 0 THEN skip_bits(r, nskip)
        ELSE [exc |-> "none", val |-> <<>>, r |-> r]

MAX_UVLC_LEADING_ZEROS == 20

UVLC_ERROR == -99999

\* too_many_zeros giving up at the cap itself.
too_many_zeros_AtCap(num_zeros) == num_zeros >= MAX_UVLC_LEADING_ZEROS

\* get_uvlc line 115: the test that ends the count of leading zeros.
too_many_zeros(num_zeros) == num_zeros > MAX_UVLC_LEADING_ZEROS

\* get_uvlc lines 111-116: the while loop, entered with num_zeros zeros
\* counted.  `err` tells that the loop returned UVLC_ERROR.
RECURSIVE uvlc_leading_zeros(_, _)
uvlc_leading_zeros(r, num_zeros) ==
    LET g == get_bits(r, 1)
    IN  IF g.exc # "none"
        THEN [exc |-> g.exc, err |-> FALSE, num_zeros |-> num_zeros, r |-> g.r]
        ELSE IF g.val # <<0>>
        THEN [exc |-> "none", err |-> FALSE, num_zeros |-> num_zeros, r |-> g.r]
        ELSE IF too_many_zeros(num_zeros + 1)
        THEN [exc |-> "none", err |-> TRUE, num_zeros |-> num_zeros + 1, r |-> g.r]
        ELSE uvlc_leading_zeros(g.r, num_zeros + 1)

\* uvlc_value without the -1.
uvlc_value_NoMinusOne(offset, num_zeros) ==
    IF num_zeros > 0 THEN offset + Pow2(num_zeros) ELSE 0

\* get_uvlc line 119.
uvlc_value(offset, num_zeros) ==
    IF num_zeros > 0 THEN offset + Pow2(num_zeros) - 1 ELSE 0

\* BitReader.get_uvlc; the value returned is an integer.
get_uvlc(r) ==
    LET z == uvlc_leading_zeros(r, 0)
    IN  IF z.exc # "none" THEN [exc |-> z.exc, val |-> 0, r |-> z.r]
        ELSE IF z.err THEN [exc |-> "none", val |-> UVLC_ERROR, r |-> z.r]
        ELSE IF z.num_zeros = 0 THEN [exc |-> "none", val |-> 0, r |-> z.r]
        ELSE LET g == get_bits(z.r, z.num_zeros)
             IN  IF g.exc # "none" THEN [exc |-> g.exc, val |-> 0, r |-> g.r]
                 ELSE [exc |-> "none",
                       val |-> uvlc_value(Val(g.val), z.num_zeros), r |-> g.r]

\* svlc_value with the signs exchanged.
svlc_value_OddNegative(v) ==
    IF v = 0 \/ v = UVLC_ERROR THEN v
    ELSE IF (v % 2) = 0 THEN (v + 1) \div 2 ELSE -(v \div 2)

\* get_svlc lines 124-127 (v is 0, UVLC_ERROR or positive).
svlc_value(v) ==
    IF v = 0 \/ v = UVLC_ERROR THEN v
    ELSE IF (v % 2) = 0 THEN -(v \div 2) ELSE (v + 1) \div 2

\* BitReader.get_svlc.
get_svlc(r) ==
    LET u == get_uvlc(r)
    IN  IF u.exc # "none" THEN u ELSE [u EXCEPT !.val = svlc_value(u.val)]

\* check_rbsp_trailing_bits lines 133-136: the while loop.
RECURSIVE rbsp_zero_bits(_)
rbsp_zero_bits(r) ==
    IF r.nextbits_cnt > 0 \/ r.bytes_remaining > 0
    THEN LET g == get_bits(r, 1)
         IN  IF g.exc # "none" THEN [exc |-> g.exc, val |-> FALSE, r |-> g.r]
             ELSE IF g.val # <<0>> THEN [exc |-> "none", val |-> FALSE, r |-> g.r]
             ELSE rbsp_zero_bits(g.r)
    ELSE [exc |-> "none", val |-> TRUE, r |-> r]

\* BitReader.check_rbsp_trailing_bits.
check_rbsp_trailing_bits(r) ==
    LET g == get_bits(r, 1)
    IN  IF g.exc # "none" THEN [exc |-> g.exc, val |-> FALSE, r |-> g.r]
        ELSE IF g.val # <<1>> THEN [exc |-> "none", val |-> FALSE, r |-> g.r]
        ELSE rbsp_zero_bits(g.r)

\* Bits of the buffer the reader has not delivered yet.
UnreadBits(r) == 8 * r.bytes_remaining + r.nextbits_cnt

\* The digits of the buffer from the reader's position on.
UnreadDigits(r) ==
    LET all == BitsOf(r.data)
    IN  SubSeq(all, Len(all) - UnreadBits(r) + 1, Len(all))

(***************************************************************************)
(* TS demuxer.                                                             *)
(***************************************************************************)
VIDEO_PID == 256

TS_PACKET_SIZE == 188

SYNC_BYTE == 71

\* The literal b'\x00\x00\x01' (start code, PES signature).
START_CODE == <<0, 0, 1>>

\* Python's s[a:b] on bytes, for 0 <= a <= b.
Slice(s, a, b) == SubSeq(s, a + 1, IF b < Len(s) THEN b ELSE Len(s))

\* Python's s[a:].
SliceFrom(s, a) == SubSeq(s, a + 1, Len(s))

\* x & 0x1F, x & 0x40, x & 0x20, x & 0x0F on a byte.
And1F(x) == x % 32

And40(x) == ((x \div 64) % 2) * 64

And20(x) == ((x \div 32) % 2) * 32

And0F(x) == x % 16

\* Line 284: the 13-bit PID of a packet of at least 3 bytes.
packet_pid(packet) == And1F(packet[2]) * 256 + packet[3]

\* pid_matches keeping the packets of every PID.
pid_matches_Any(pid) == TRUE

\* Line 285: whether the packet is kept (`pid != VIDEO_PID: continue`).
pid_matches(pid) == pid = VIDEO_PID

\* Lines 292-294: payload_start of a packet of at least 4 bytes (5 when the
\* adaptation bit is set).
payload_start_of(packet) ==
    IF And20(packet[4]) # 0 THEN 4 + 1 + packet[5] ELSE 4

\* add_start_code adding the start code at the first unit start too.
add_start_code_Always(nal, son) == nal \o START_CODE

\* Lines 301-303: nal_data after the start code is added for a unit start.
add_start_code(nal, son) == IF son THEN nal \o START_CODE ELSE nal

\* The body of the for loop of extract_h265_nal_from_ts for one packet
\* (lines 276-311).  packet[k] with k >= len(packet) raises IndexError.
\* `next` tells how the iteration ended: "continue", "append" or "raise".
demux_packet(packet, nal, son) ==
    LET n == Len(packet)
        skip == [next |-> "continue", exc |-> "none", nal |-> nal, son |-> son]
        fail(nl, sn) == [next |-> "raise", exc |-> "IndexError", nal |-> nl, son |-> sn]
        append(nl, sn, ps) == [next |-> "append", exc |-> "none",
                               nal |-> nl \o SliceFrom(packet, ps), son |-> sn]
    IN  IF packet[1] # SYNC_BYTE THEN skip
        ELSE IF n < 3 THEN fail(nal, son)
        ELSE IF ~pid_matches(packet_pid(packet)) THEN skip
        ELSE IF n < 4 THEN fail(nal, son)
        ELSE IF And20(packet[4]) # 0 /\ n < 5 THEN fail(nal, son)
        ELSE LET payload_start == payload_start_of(packet)
                 payload_unit_start == And40(packet[2])
             IN
        IF payload_start >= TS_PACKET_SIZE THEN skip
        ELSE IF payload_unit_start # 0
        THEN LET nal1 == add_start_code(nal, son) IN
             IF Slice(packet, payload_start, payload_start + 3) = START_CODE
             THEN IF payload_start + 8 >= n THEN fail(nal1, TRUE)
                  ELSE append(nal1, TRUE,
                              payload_start + 9 + And0F(packet[payload_start + 8 + 1]))
             ELSE append(nal1, TRUE, payload_start)
        ELSE append(nal, son, payload_start)

(***************************************************************************)
(* Extension locator.                                                      *)
(***************************************************************************)
\* b"_6dof_extension_"
EXTENSION_STRING ==
    <<95, 54, 100, 111, 102, 95, 101, 120, 116, 101, 110, 115, 105, 111, 110, 95>>

\* bytes_find returning the highest offset at which sub occurs.
bytes_find_Last(s, sub) ==
    LET hits == {k \in 0..(Len(s) - Len(sub)) : SubSeq(s, k + 1, k + Len(sub)) = sub}
    IN  IF hits = {} THEN -1
        ELSE CHOOSE k \in hits : \A j \in hits : k >= j

\* bytes.find(sub): the lowest offset at which sub occurs, or -1.
bytes_find(s, sub) ==
    LET hits == {k \in 0..(Len(s) - Len(sub)) : SubSeq(s, k + 1, k + Len(sub)) = sub}
    IN  IF hits = {} THEN -1
        ELSE CHOOSE k \in hits : \A j \in hits : k <= j

\* An optional value: None is the empty sequence, a value x is <<x>>.
None == <<>>

Some(x) == <<x>>

\* find_6dof_extension_in_nal returning the slice after the tag's first byte.
find_6dof_extension_in_nal_PastFirstByte(nal) ==
    LET idx == bytes_find(nal, EXTENSION_STRING)
    IN  IF idx = -1 THEN None ELSE Some(SliceFrom(nal, idx + 1))

\* find_6dof_extension_in_nal.
find_6dof_extension_in_nal(nal) ==
    LET idx == bytes_find(nal, EXTENSION_STRING)
    IN  IF idx = -1 THEN None ELSE Some(SliceFrom(nal, idx))

(***************************************************************************)
(* SEI decoder.                                                            *)
(***************************************************************************)
\* SEI_6DOF.__init__ (the per-camera lists are never filled by the decoder).
SEI_6DOF ==
    [uuid_string |-> <<>>, stitching_layout |-> None, camera_number |-> 0,
     camera_model |-> None, camera_resolution_x |-> 0, camera_resolution_y |-> 0,
     video_resolution_x |-> 0, video_resolution_y |-> 0,
     texture_padding_size |-> 0, background_texture_flag |-> 0,
     background_depth_flag |-> None, arrangement_flag |-> None,
     horizontal_half_fov |-> 0]

\* SEI_6DOF.is_valid; uuid_string is kept as its characters' code points.
is_valid(s) == s.uuid_string = EXTENSION_STRING

\* Successive reader.get_bits(w) calls for the widths w of `widths`, stopping
\* at the first that raises; vals are the integers returned so far.
RECURSIVE read_fields(_, _, _)
read_fields(r, widths, acc) ==
    IF widths = <<>> THEN [exc |-> "none", r |-> r, vals |-> acc]
    ELSE LET g == get_bits(r, Head(widths))
         IN  IF g.exc # "none" THEN [exc |-> g.exc, r |-> g.r, vals |-> acc]
             ELSE read_fields(g.r, Tail(widths), Append(acc, Val(g.val)))

\* read_sei_6dof lines 221-223: sixteen get_bits(8), each appended as chr().
read_uuid(r) == read_fields(r, [k \in 1..16 |-> 8], <<>>)

\* read_sei_6dof lines 228-250: the widths read, markers and reserved included.
HEADER_WIDTHS == <<2, 16, 2, 1, 16, 1, 16, 1, 16, 1, 16, 1, 8, 1, 1, 1, 1, 8, 3>>

\* read_header with camera_resolution_x and camera_resolution_y exchanged.
read_header_SwappedResolution(s, v) ==
    [s EXCEPT !.stitching_layout = v[1], !.camera_number = v[2],
              !.camera_model = v[3], !.camera_resolution_x = v[7],
              !.camera_resolution_y = v[5], !.video_resolution_x = v[9],
              !.video_resolution_y = v[11], !.texture_padding_size = v[13],
              !.background_texture_flag = v[14], !.background_depth_flag = v[15],
              !.arrangement_flag = v[17], !.horizontal_half_fov = v[18]]

\* read_sei_6dof lines 228-250: the fields assigned from the values read.
read_header(s, v) ==
    [s EXCEPT !.stitching_layout = v[1], !.camera_number = v[2],
              !.camera_model = v[3], !.camera_resolution_x = v[5],
              !.camera_resolution_y = v[7], !.video_resolution_x = v[9],
              !.video_resolution_y = v[11], !.texture_padding_size = v[13],
              !.background_texture_flag = v[14], !.background_depth_flag = v[15],
              !.arrangement_flag = v[17], !.horizontal_half_fov = v[18]]

\* CAMERA_WIDTHS without the four reserved bits.
CAMERA_WIDTHS_NoReserved == <<16, 1, 16, 1, 16, 1, 16, 1>>

\* read_sei_6dof lines 253-262: the widths read for one camera.
CAMERA_WIDTHS == <<16, 1, 16, 1, 16, 1, 16, 1, 4>>

\* FieldOfViewInfo with the identifier counted from 0.
FieldOfViewInfo_ZeroBasedId(fovs, v) ==
    [id |-> Len(fovs), x |-> v[1], y |-> v[3],
     width |-> v[5] - v[1], height |-> v[7] - v[3]]

\* FieldOfViewInfo with the width taken as top-left minus bottom-right.
FieldOfViewInfo_SwappedWidth(fovs, v) ==
    [id |-> Len(fovs) + 1, x |-> v[1], y |-> v[3],
     width |-> v[1] - v[5], height |-> v[7] - v[3]]

\* read_sei_6dof line 264: the FieldOfViewInfo appended.
FieldOfViewInfo(fovs, v) ==
    [id |-> Len(fovs) + 1, x |-> v[1], y |-> v[3],
     width |-> v[5] - v[1], height |-> v[7] - v[3]]

\* convert_to_json.
convert_to_json(s, fovs) ==
    [sei |-> [is_valid |-> is_valid(s),
              stitching_layout |-> s.stitching_layout,
              camera_number |-> s.camera_number,
              camera_model |-> s.camera_model,
              camera_resolution_x |-> s.camera_resolution_x,
              camera_resolution_y |-> s.camera_resolution_y,
              video_resolution_x |-> s.video_resolution_x,
              video_resolution_y |-> s.video_resolution_y,
              texture_padding_size |-> s.texture_padding_size,
              background_texture_flag |-> s.background_texture_flag,
              background_depth_flag |-> s.background_depth_flag,
              arrangement_flag |-> s.arrangement_flag,
              horizontal_half_fov |-> s.horizontal_half_fov],
     fov_array |-> [k \in 1..Len(fovs) |->
                       [id |-> fovs[k].id, x |-> fovs[k].x, y |-> fovs[k].y,
                        width |-> fovs[k].width, height |-> fovs[k].height]]]

(***************************************************************************)
(* Inputs: transport streams built from packets of a few kinds.            *)
(***************************************************************************)
\* Most packets in one input of the packet-kind family.
MaxPackets == 3
\* Most cameras an encoded extension block declares.
MaxCameras == 2

\* The w binary digits of v.
ToBits(v, w) == [k \in 1..w |-> (v \div Pow2(w - k)) % 2]

\* Digits packed into bytes (a whole number of bytes).
PackBytes(bits) == [j \in 1..(Len(bits) \div 8) |-> Val(SubSeq(bits, 8 * j - 7, 8 * j))]

RECURSIVE Concat(_)
Concat(ss) == IF ss = <<>> THEN <<>> ELSE Head(ss) \o Concat(Tail(ss))

Repeat(b, n) == [k \in 1..n |-> b]

\* The byte that fills the payload of the packet at position k (1-based):
\* distinct per packet and unlike sync, stuffing, start-code and tag bytes.
Fill(k) == 160 + k

\* A 4-byte TS header; afc is the fourth byte (0x10 payload, 0x30 adaptation
\* field and payload).
Hdr(sync, pid, pusi, afc) ==
    <<sync, (IF pusi THEN 64 ELSE 0) + (pid \div 256), pid % 256, afc>>

\* s cut or filled up to one packet.
Pad(s, fill) ==
    IF Len(s) >= TS_PACKET_SIZE THEN SubSeq(s, 1, TS_PACKET_SIZE)
    ELSE s \o Repeat(fill, TS_PACKET_SIZE - Len(s))

\* A program identifier that is not the target.
OTHER_PID == VIDEO_PID + 1

\* A PES header with 5 bytes of header data (low 4 bits of its 9th byte).
PES_HEADER == <<0, 0, 1, 224, 0, 0, 128, 128, 5, 33, 0, 1, 0, 1>>

PacketKinds == {"T", "TS", "O", "B", "TP", "TA", "TE"}

\* The packet of kind kd at position k.
\*   T  target PID            TS target PID, payload-unit-start
\*   O  other PID, start set  B  wrong sync byte (target PID, start set)
\*   TP target, start, PES header    TA target, 7-byte adaptation field
\*   TE target, start, adaptation field filling the packet (no payload)
Packet(kd, k) ==
    CASE kd = "T"  -> Pad(Hdr(SYNC_BYTE, VIDEO_PID, FALSE, 16), Fill(k))
      [] kd = "TS" -> Pad(Hdr(SYNC_BYTE, VIDEO_PID, TRUE, 16), Fill(k))
      [] kd = "O"  -> Pad(Hdr(SYNC_BYTE, OTHER_PID, TRUE, 16), Fill(k))
      [] kd = "B"  -> Pad(Hdr(0, VIDEO_PID, TRUE, 16), Fill(k))
      [] kd = "TP" -> Pad(Hdr(SYNC_BYTE, VIDEO_PID, TRUE, 16) \o PES_HEADER, Fill(k))
      [] kd = "TA" -> Pad(Hdr(SYNC_BYTE, VIDEO_PID, FALSE, 48) \o <<7>> \o Repeat(255, 7), Fill(k))
      [] kd = "TE" -> Pad(Hdr(SYNC_BYTE, VIDEO_PID, TRUE, 48) \o <<183>>, 255)

\* Sequences of at most n packet kinds.
RECURSIVE KindSeqs(_)
KindSeqs(n) ==
    IF n = 0 THEN {<<>>}
    ELSE KindSeqs(n - 1) \cup
         {Append(q, kd) : q \in {q \in KindSeqs(n - 1) : Len(q) = n - 1}, kd \in PacketKinds}

Stream(kinds) == Concat([k \in 1..Len(kinds) |-> Packet(kinds[k], k)])

\* Family 1: whole packets of every kind sequence.
KindInputs == {Stream(q) : q \in KindSeqs(MaxPackets)}

\* Family 2: a truncated last packet, alone or after one whole packet.
TailLens == (1..16) \cup {100, 187}

TailInputs ==
    {pre \o SubSeq(Packet(kd, 2), 1, len) :
        pre \in {<<>>, Packet("TS", 1)}, kd \in {"TS", "TP", "TA", "B", "O"},
        len \in TailLens}

\* Corner tuples <<top-left x, top-left y, bottom-right x, bottom-right y>>.
Corners == {<<0, 0, 960, 1080>>, <<960, 0, 0, 1080>>, <<0, 1080, 960, 0>>,
            <<65535, 65535, 0, 0>>}

RECURSIVE CameraSeqs(_)
CameraSeqs(n) ==
    IF n = 0 THEN {<<>>}
    ELSE CameraSeqs(n - 1) \cup
         {Append(q, c) : q \in {q \in CameraSeqs(n - 1) : Len(q) = n - 1}, c \in Corners}

\* The header fields after the tag, as the format lays them out; m is the
\* value of every marker bit.
HeaderBits(ncam, m) ==
    Concat(<<ToBits(1, 2), ToBits(ncam, 16), ToBits(0, 2), <<m>>,
             ToBits(1920, 16), <<m>>, ToBits(1080, 16), <<m>>,
             ToBits(1920, 16), <<m>>, ToBits(1080, 16), <<m>>,
             ToBits(4, 8), <<0>>, <<0>>, <<m>>,
             <<0>>, ToBits(90, 8), ToBits(0, 3)>>)

CameraBits(c, m) ==
    Concat(<<ToBits(c[1], 16), <<m>>, ToBits(c[2], 16), <<m>>,
             ToBits(c[3], 16), <<m>>, ToBits(c[4], 16), <<m>>, ToBits(0, 4)>>)

\* An extension block: tag, header declaring ncam cameras, the cameras given.
Block(tag, ncam, cams, m) ==
    tag \o PackBytes(HeaderBits(ncam, m) \o
                     Concat([k \in 1..Len(cams) |-> CameraBits(cams[k], m)]))

\* One start packet whose payload is `payload` followed by fill.
Carry(payload) == Pad(Hdr(SYNC_BYTE, VIDEO_PID, TRUE, 16) \o payload, Fill(1))

\* One start packet whose payload ends with `payload`.
CarryLast(payload) ==
    Hdr(SYNC_BYTE, VIDEO_PID, TRUE, 16)
        \o Repeat(Fill(1), TS_PACKET_SIZE - 4 - Len(payload)) \o payload

\* Family 3: a well-formed block for every camera sequence and marker value.
BlockInputs ==
    {Carry(<<Fill(1), Fill(1), Fill(1)>> \o Block(EXTENSION_STRING, Len(cams), cams, m)) :
        cams \in CameraSeqs(MaxCameras), m \in {0, 1}}

\* Family 4: a block cut short by the end of the stream (`keep` bytes of it
\* are there), declaring more cameras than it holds included.
KeepLens == {5, 15, 16, 17, 29, 30, 38, 39, 47}

TruncatedInputs ==
    {CarryLast(SubSeq(Block(EXTENSION_STRING, 2, <<c, c>>, 1), 1, keep)) :
        c \in {<<0, 0, 960, 1080>>}, keep \in KeepLens}

\* The tag with its last byte missing, and with one byte changed.
TAG_15 == SubSeq(EXTENSION_STRING, 1, 15)

TAG_BAD == [EXTENSION_STRING EXCEPT ![9] = 84]

\* Family 5: tags that are truncated, corrupted, repeated, overlapping a
\* partial tag, or split over two packets.
TagInputs ==
    LET cam == <<0, 0, 960, 1080>>
        blk == Block(EXTENSION_STRING, 1, <<cam>>, 1)
        blk0 == Block(EXTENSION_STRING, 0, <<>>, 0)
    IN  { Carry(TAG_15),
          Carry(Block(TAG_BAD, 1, <<cam>>, 1)),
          Carry(TAG_15 \o blk),
          Carry(TAG_BAD \o blk0 \o <<Fill(1)>> \o blk),
          Carry(<<Fill(1)>> \o blk \o blk0),
          Carry(SubSeq(EXTENSION_STRING, 1, 6) \o blk),
          CarryLast(SubSeq(blk, 1, 8)) \o Pad(Hdr(SYNC_BYTE, VIDEO_PID, FALSE, 16)
                                              \o SubSeq(blk, 9, Len(blk)), Fill(2)),
          CarryLast(SubSeq(blk, 1, 8)) \o Packet("O", 2)
              \o Pad(Hdr(SYNC_BYTE, VIDEO_PID, FALSE, 16) \o SubSeq(blk, 9, Len(blk)), Fill(3)),
          CarryLast(SubSeq(blk, 1, 8)) \o Pad(Hdr(SYNC_BYTE, VIDEO_PID, TRUE, 16)
                                              \o SubSeq(blk, 9, Len(blk)), Fill(2)) }

\* Header field values <<stitching_layout, camera_model, camera_resolution_x,
\* camera_resolution_y, video_resolution_x, video_resolution_y,
\* texture_padding_size, background_texture_flag, background_depth_flag,
\* arrangement_flag, horizontal_half_fov>>.
FieldValues ==
    { <<1, 0, 1920, 1080, 1920, 1080, 4, 0, 0, 0, 90>>,
      <<3, 3, 65535, 65535, 65535, 65535, 255, 1, 1, 1, 255>>,
      <<2, 1, 1, 2, 3, 4, 5, 1, 0, 1, 6>>,
      <<0, 2, 0, 0, 0, 0, 0, 0, 1, 0, 0>> }

\* The header fields f for ncam cameras; every marker bit is m and every
\* reserved bit is rsv.
HeaderBitsOf(f, ncam, m, rsv) ==
    Concat(<<ToBits(f[1], 2), ToBits(ncam, 16), ToBits(f[2], 2), <<m>>,
             ToBits(f[3], 16), <<m>>, ToBits(f[4], 16), <<m>>,
             ToBits(f[5], 16), <<m>>, ToBits(f[6], 16), <<m>>,
             ToBits(f[7], 8), <<f[8]>>, <<f[9]>>, <<m>>,
             <<f[10]>>, ToBits(f[11], 8), Repeat(rsv, 3)>>)

CameraBitsOf(c, m, rsv) ==
    Concat(<<ToBits(c[1], 16), <<m>>, ToBits(c[2], 16), <<m>>,
             ToBits(c[3], 16), <<m>>, ToBits(c[4], 16), <<m>>, Repeat(rsv, 4)>>)

BlockOf(f, cams, m, rsv) ==
    EXTENSION_STRING
        \o PackBytes(HeaderBitsOf(f, Len(cams), m, rsv) \o
                     Concat([k \in 1..Len(cams) |-> CameraBitsOf(cams[k], m, rsv)]))

\* Family 6: one-camera blocks of every field tuple, corner tuple, marker
\* value and reserved value.
FieldInputs ==
    {Carry(BlockOf(f, <<c>>, m, rsv)) :
        f \in FieldValues, c \in Corners, m \in {0, 1}, rsv \in {0, 1}}

\* Family 7: two packets of the target PID without adaptation field, the
\* payload of the first beginning with the tag and the fields
\* stitching_layout 1, camera_number 1, camera_model 0, 1920x1080 twice,
\* texture_padding_size 4, flags 0, horizontal_half_fov 90, markers 1,
\* reserved 0, and one camera with corners (0,0)-(960,1080).
ScenarioInputs ==
    {Pad(Hdr(SYNC_BYTE, VIDEO_PID, pusi, 16)
             \o BlockOf(<<1, 0, 1920, 1080, 1920, 1080, 4, 0, 0, 0, 90>>,
                        <<(<<0, 0, 960, 1080>>)>>, 1, 0), Fill(1))
         \o Packet("T", 2) : pusi \in BOOLEAN}

\* A whole target packet whose payload starts at offset ps (4 without
\* adaptation field, else 5 plus the adaptation length) with a PES header
\* declaring hl bytes of header data; k is its position in the stream.
PesPacket(pusi, ps, hl, k) ==
    Pad((IF ps = 4 THEN Hdr(SYNC_BYTE, VIDEO_PID, pusi, 16)
         ELSE Hdr(SYNC_BYTE, VIDEO_PID, pusi, 48) \o <<ps - 5>> \o Repeat(255, ps - 5))
            \o <<0, 0, 1, 224, 0, 0, 128, 128, hl>> \o Repeat(255, hl), Fill(k))

\* Payload starts of the PES packets: the least, inside the packet, the
\* last with the whole 9-byte header inside (179) and the last with the
\* three signature bytes inside (185).
PesStarts == {4, 5, 100, 176, 179, 180, 183, 185}

\* Family 8: a PES header at each payload start, alone or after a start
\* packet, with and without payload-unit-start.
PesInputs ==
    {pre \o PesPacket(pusi, ps, hl, Len(pre) \div TS_PACKET_SIZE + 1) :
        pre \in {<<>>, Packet("TS", 1)}, pusi \in BOOLEAN, ps \in PesStarts,
        hl \in {0, 5, 15}}

Inputs ==
    KindInputs \cup TailInputs \cup BlockInputs \cup TruncatedInputs \cup TagInputs
        \cup FieldInputs \cup ScenarioInputs \cup PesInputs

(***************************************************************************)
(* init_server: the status list.  An entry is a record with the fields     *)
(* url, current_pos and offset; the list is a sequence of entries.         *)
(***************************************************************************)
\* GLOBAL_STATUS = [], and no call made yet.
InitServer ==
    /\ GLOBAL_STATUS = <<>>
    /\ status_calls = <<>>

\* add_global_status(url, current_pos, offset): the list after the call.
add_global_status(status, url, current_pos, offset) ==
    Append(status, [url |-> url, current_pos |-> current_pos, offset |-> offset])

\* The entries of the list that the loop's test item['url'] == url accepts.
status_items(status, url) == {k \in 1..Len(status) : status[k].url = url}

\* update_global_status(url, current_pos, offset): the list after the call.
\* The loop stops at the first entry of that url; `x if x else old` keeps
\* the old value whenever x is falsy, and the integer 0 is falsy.
update_global_status(status, url, current_pos, offset) ==
    IF status_items(status, url) = {}
    THEN add_global_status(status, url, current_pos, offset)
    ELSE LET k == CHOOSE k \in status_items(status, url) :
                      \A j \in status_items(status, url) : k <= j
         IN  [status EXCEPT
                 ![k].current_pos = IF current_pos # 0 THEN current_pos ELSE @,
                 ![k].offset = IF offset # 0 THEN offset ELSE @]

(***************************************************************************)
(* VlcPlayerBase: the media track.  A list of libvlc tracks is a sequence  *)
(* of records [type, width, height, frame_rate_num, frame_rate_den]; a     *)
(* MediaTrack is a record, and an Optional[MediaTrack] is None or Some(t). *)
(* A MediaTrack has no __bool__ or __len__ of its own that makes it falsy, *)
(* so `not self.media_track` is the test media_track = None.               *)
(***************************************************************************)
DEFAULT_FPS == 25

\* VlcPlayerBase.__init__, the fields the load sequence uses.
InitPlayer ==
    /\ media_track = None
    /\ media_input = None
    /\ media_track_extract_attempted = FALSE
    /\ player_pc = "constructed"
    /\ player_calls = <<>>

MediaTrack(is_audio_only, length, video_dimensions, fps) ==
    [is_audio_only |-> is_audio_only, length |-> length,
     video_dimensions |-> video_dimensions, fps |-> fps]

\* _get_duration(): -1 for a live input, otherwise the function ends without
\* a return statement, which is None.
get_duration(input) == IF input.is_live THEN Some(-1) ELSE None

\* The video tracks of the list, in order.
video_tracks(tracks) == {k \in 1..Len(tracks) : tracks[k].type = "video"}

\* next(video_tracks, None) when there is a video track.
video_track(tracks) ==
    tracks[CHOOSE k \in video_tracks(tracks) : \A j \in video_tracks(tracks) : k <= j]

\* The fps of an initialised video track; the quotients drawn are whole.
track_fps(t) ==
    IF t.frame_rate_num # 0 /\ t.frame_rate_den # 0
    THEN t.frame_rate_num \div t.frame_rate_den
    ELSE DEFAULT_FPS

\* _get_media_track() when tracks_get() returns `tracks`.
get_media_track(tracks, input) ==
    IF tracks = <<>> THEN None
    ELSE IF video_tracks(tracks) = {}
    THEN Some(MediaTrack(TRUE, get_duration(input), <<0, 0>>, DEFAULT_FPS))
    ELSE IF video_track(tracks).width = 0 \/ video_track(tracks).height = 0
    THEN None
    ELSE Some(MediaTrack(FALSE, get_duration(input),
                         <<video_track(tracks).width, video_track(tracks).height>>,
                         track_fps(video_track(tracks))))

\* A mutant of the decision: the flag is not looked at.
load_video_st3_outcome_RetryAgain(track, attempted) ==
    IF track = None THEN "wait" ELSE "loaded"

\* load_video_st3_extract_media_track after _init_media_track(): the branch
\* taken, from the two tests on self.media_track and the flag.
load_video_st3_outcome(track, attempted) ==
    IF track = None /\ attempted THEN "error"
    ELSE IF track = None THEN "wait"
    ELSE "loaded"

\* _init_media_track(): the player's media_track and media_input after it.
init_media_track(track, input, tracks) ==
    IF track # None THEN [media_track |-> track, media_input |-> input]
    ELSE IF get_media_track(tracks, input) = None
    THEN [media_track |-> None, media_input |-> input]
    ELSE [media_track |-> get_media_track(tracks, input),
          media_input |->
              [is_live |-> IF get_media_track(tracks, input)[1].length = Some(-1)
                              /\ ~input.is_live
                           THEN TRUE ELSE input.is_live,
               length |-> get_media_track(tracks, input)[1].length]]

(***************************************************************************)
(* process_ts_file, step by step.                                          *)
(***************************************************************************)
NoReader == BitReader(<<>>)

NoLast == [op |-> "none", n |-> 0, before |-> NoReader, exc |-> "none", val |-> <<>>]

Pending == [kind |-> "pending"]

Returned(v) == [kind |-> "return", value |-> v]

Raised(e) == [kind |-> "raise", exc |-> e]

\* process_ts_file(data) has been called and has called the demuxer.
Init ==
    /\ ts \in Inputs
    /\ pc = "extract"
    /\ i = 0
    /\ nal_data = <<>>
    /\ start_of_nal = FALSE
    /\ new_nal_data = None
    /\ reader = NoReader
    /\ sei = SEI_6DOF
    /\ fov_info_array = <<>>
    /\ decoded = None
    /\ result = Pending
    /\ calls = <<"extract_h265_nal_from_ts">>
    /\ last = NoLast
    /\ nops = 0
    /\ returns = <<>>
    /\ InitServer
    /\ InitPlayer

\* extract_h265_nal_from_ts: one iteration of the for loop (lines 275-311).
DemuxPacket ==
    /\ pc = "extract"
    /\ i < Len(ts)
    /\ LET d == demux_packet(Slice(ts, i, i + TS_PACKET_SIZE), nal_data, start_of_nal)
       IN  /\ nal_data' = d.nal
           /\ start_of_nal' = d.son
           /\ IF d.exc = "none"
              THEN /\ i' = i + TS_PACKET_SIZE
                   /\ UNCHANGED <<pc, result>>
              ELSE /\ pc' = "done"
                   /\ result' = Raised(d.exc)
                   /\ UNCHANGED i
    /\ UNCHANGED <<ts, new_nal_data, reader, sei, fov_info_array, decoded, calls,
                   last, nops, returns, serverVars, playerVars>>

\* extract_h265_nal_from_ts returns (line 313); process_ts_file lines 327-329.
DemuxReturn ==
    /\ pc = "extract"
    /\ i >= Len(ts)
    /\ IF nal_data = <<>>
       THEN pc' = "done" /\ result' = Returned(None)
       ELSE pc' = "find" /\ UNCHANGED result
    /\ UNCHANGED <<ts, i, nal_data, start_of_nal, new_nal_data, reader, sei,
                   fov_info_array, decoded, calls, last, nops, returns, serverVars, playerVars>>

\* process_ts_file lines 332-336.
Find ==
    /\ pc = "find"
    /\ calls' = Append(calls, "find_6dof_extension_in_nal")
    /\ new_nal_data' = find_6dof_extension_in_nal(nal_data)
    /\ IF new_nal_data' = None \/ new_nal_data' = Some(<<>>)
       THEN pc' = "done" /\ result' = Returned(None)
       ELSE pc' = "reader" /\ UNCHANGED result
    /\ UNCHANGED <<ts, i, nal_data, start_of_nal, reader, sei, fov_info_array,
                   decoded, last, nops, returns, serverVars, playerVars>>

\* process_ts_file line 339.
NewReader ==
    /\ pc = "reader"
    /\ calls' = Append(calls, "BitReader")
    /\ reader' = BitReader(new_nal_data[1])
    /\ pc' = "tag"
    /\ UNCHANGED <<ts, i, nal_data, start_of_nal, new_nal_data, sei,
                   fov_info_array, decoded, result, last, nops, returns, serverVars, playerVars>>

\* read_sei_6dof lines 218-226: the tag is read and checked.
ReadTag ==
    /\ pc = "tag"
    /\ calls' = Append(calls, "read_sei_6dof")
    /\ LET u == read_uuid(reader)
           s == [SEI_6DOF EXCEPT !.uuid_string = u.vals]
       IN  /\ reader' = u.r
           /\ sei' = s
           /\ fov_info_array' = <<>>
           /\ IF u.exc # "none"
              THEN pc' = "done" /\ result' = Raised(u.exc) /\ UNCHANGED decoded
              ELSE IF ~is_valid(s)
              THEN pc' = "decoded" /\ decoded' = Some([sei |-> None, fov |-> Some(<<>>)])
                   /\ UNCHANGED result
              ELSE pc' = "header" /\ UNCHANGED <<decoded, result>>
    /\ UNCHANGED <<ts, i, nal_data, start_of_nal, new_nal_data, last, nops, returns, serverVars, playerVars>>

\* read_sei_6dof lines 228-250.
ReadHeader ==
    /\ pc = "header"
    /\ LET h == read_fields(reader, HEADER_WIDTHS, <<>>)
       IN  /\ reader' = h.r
           /\ IF h.exc # "none"
              THEN pc' = "done" /\ result' = Raised(h.exc) /\ UNCHANGED sei
              ELSE pc' = "cameras" /\ sei' = read_header(sei, h.vals)
                   /\ UNCHANGED result
    /\ UNCHANGED <<ts, i, nal_data, start_of_nal, new_nal_data, fov_info_array,
                   decoded, calls, last, nops, returns, serverVars, playerVars>>

\* read_sei_6dof lines 252-264: one iteration of the camera loop.
ReadCamera ==
    /\ pc = "cameras"
    /\ Len(fov_info_array) < sei.camera_number
    /\ LET c == read_fields(reader, CAMERA_WIDTHS, <<>>)
       IN  /\ reader' = c.r
           /\ IF c.exc # "none"
              THEN pc' = "done" /\ result' = Raised(c.exc)
                   /\ UNCHANGED fov_info_array
              ELSE fov_info_array' =
                       Append(fov_info_array, FieldOfViewInfo(fov_info_array, c.vals))
                   /\ UNCHANGED <<pc, result>>
    /\ UNCHANGED <<ts, i, nal_data, start_of_nal, new_nal_data, sei, decoded,
                   calls, last, nops, returns, serverVars, playerVars>>

\* read_sei_6dof line 266.
ReadReturn ==
    /\ pc = "cameras"
    /\ Len(fov_info_array) >= sei.camera_number
    /\ decoded' = Some([sei |-> Some(sei), fov |-> Some(fov_info_array)])
    /\ pc' = "decoded"
    /\ UNCHANGED <<ts, i, nal_data, start_of_nal, new_nal_data, reader, sei,
                   fov_info_array, result, calls, last, nops, returns, serverVars, playerVars>>

\* process_ts_file lines 342-351 (the JSON text is kept as the dict it prints).
Finish ==
    /\ pc = "decoded"
    /\ IF decoded[1].sei = None \/ decoded[1].fov = None
       THEN result' = Returned(None)
       ELSE result' = Returned(Some(convert_to_json(decoded[1].sei[1], decoded[1].fov[1])))
    /\ pc' = "done"
    /\ UNCHANGED <<ts, i, nal_data, start_of_nal, new_nal_data, reader, sei,
                   fov_info_array, decoded, calls, last, nops, returns, serverVars, playerVars>>

Next ==
    \/ DemuxPacket
    \/ DemuxReturn
    \/ Find
    \/ NewReader
    \/ ReadTag
    \/ ReadHeader
    \/ ReadCamera
    \/ ReadReturn
    \/ Finish

Spec == Init /\ [][Next]_vars

(***************************************************************************)
(* process_ts_file on whole packets that carry an extension block, a tag   *)
(* or a part of one.                                                       *)
(***************************************************************************)
InitBlock ==
    /\ Init
    /\ ts \in BlockInputs \cup TruncatedInputs \cup TagInputs \cup FieldInputs
                \cup ScenarioInputs

SpecBlock == InitBlock /\ [][Next]_vars

(***************************************************************************)
(* read_sei_6dof called on a reader of the caller's own.                   *)
(***************************************************************************)
\* Buffers handed to the decoder: well-formed blocks, blocks with a wrong or
\* short tag, blocks cut short, and an empty buffer.
DecodeInputs ==
    LET cam == <<0, 0, 960, 1080>>
        full == Block(EXTENSION_STRING, 2, <<cam, cam>>, 1)
    IN  {Block(EXTENSION_STRING, Len(cams), cams, m) \o <<Fill(1)>> :
            cams \in CameraSeqs(MaxCameras), m \in {0, 1}}
        \cup {Block(EXTENSION_STRING, Len(cams), cams, 1) \o after :
                cams \in CameraSeqs(1), after \in {<<>>, <<255, 255>>, <<0, 1, 2>>}}
        \cup {Block(TAG_BAD, Len(cams), cams, 1) : cams \in CameraSeqs(1)}
        \cup {SubSeq(full, 1, keep) : keep \in KeepLens \cup {0}}
        \cup {TAG_15 \o full}

InitDecode ==
    /\ ts = <<>>
    /\ pc = "tag"
    /\ i = 0
    /\ nal_data = <<>>
    /\ start_of_nal = FALSE
    /\ new_nal_data = None
    /\ \E buf \in DecodeInputs : reader = BitReader(buf)
    /\ sei = SEI_6DOF
    /\ fov_info_array = <<>>
    /\ decoded = None
    /\ result = Pending
    /\ calls = <<>>
    /\ last = NoLast
    /\ nops = 0
    /\ returns = <<>>
    /\ InitServer
    /\ InitPlayer

NextDecode ==
    \/ ReadTag
    \/ ReadHeader
    \/ ReadCamera
    \/ ReadReturn

SpecDecode == InitDecode /\ [][NextDecode]_vars

(***************************************************************************)
(* BitReader operations called in any order on a reader over a small       *)
(* buffer.                                                                 *)
(***************************************************************************)
BufBytes == {0, 165, 255}

RECURSIVE Buffers(_)
Buffers(n) ==
    IF n = 0 THEN {<<>>}
    ELSE Buffers(n - 1) \cup
         {Append(q, b) : q \in {q \in Buffers(n - 1) : Len(q) = n - 1}, b \in BufBytes}

\* Widths asked of get_bits, peek_bits and skip_bits.
Widths == {1, 5, 8, 32}

InitBitReader ==
    /\ ts = <<>>
    /\ pc = "bits"
    /\ i = 0
    /\ nal_data = <<>>
    /\ start_of_nal = FALSE
    /\ new_nal_data = None
    /\ \E buf \in Buffers(MaxBufLen) : reader = BitReader(buf)
    /\ sei = SEI_6DOF
    /\ fov_info_array = <<>>
    /\ decoded = None
    /\ result = Pending
    /\ calls = <<>>
    /\ last = NoLast
    /\ nops = 0
    /\ returns = <<>>
    /\ InitServer
    /\ InitPlayer

\* The reader after operation `name` with outcome o, and the record of it.
Called(name, n, o) ==
    /\ pc = "bits"
    /\ nops < MaxOps
    /\ nops' = nops + 1
    /\ reader' = o.r
    /\ last' = [op |-> name, n |-> n, before |-> reader, exc |-> o.exc, val |-> o.val]
    /\ returns' = IF o.exc = "none" THEN Append(returns, o.val) ELSE returns
    /\ UNCHANGED <<pipelineVars, serverVars, playerVars>>

GetBits == \E n \in Widths : Called("get_bits", n, get_bits(reader, n))

PeekBits == \E n \in Widths : Called("peek_bits", n, peek_bits(reader, n))

SkipBits == \E n \in Widths : Called("skip_bits", n, skip_bits(reader, n))

SkipToByteBoundary ==
    Called("skip_to_byte_boundary", 0, skip_to_byte_boundary(reader))

GetUvlc == Called("get_uvlc", 0, get_uvlc(reader))

GetSvlc == Called("get_svlc", 0, get_svlc(reader))

CheckRbspTrailingBits ==
    Called("check_rbsp_trailing_bits", 0, check_rbsp_trailing_bits(reader))

NextBitReader ==
    \/ GetBits
    \/ PeekBits
    \/ SkipBits
    \/ SkipToByteBoundary
    \/ GetUvlc
    \/ GetSvlc
    \/ CheckRbspTrailingBits

SpecBitReader == InitBitReader /\ [][NextBitReader]_vars

(***************************************************************************)
(* get_bits, peek_bits and skip_bits called on a reader over a buffer      *)
(* longer than the 8 bytes __init__ loads, so that a later call refills.   *)
(***************************************************************************)
LongBuffers ==
    { <<165, 90, 255, 0, 1, 128, 60, 195, 17, 238>>,
      <<0, 0, 0, 0, 255, 255, 255, 255, 165, 1, 128>>,
      [k \in 1..12 |-> 16 * k + k] }

InitLong ==
    /\ ts = <<>>
    /\ pc = "bits"
    /\ i = 0
    /\ nal_data = <<>>
    /\ start_of_nal = FALSE
    /\ new_nal_data = None
    /\ \E buf \in LongBuffers : reader = BitReader(buf)
    /\ sei = SEI_6DOF
    /\ fov_info_array = <<>>
    /\ decoded = None
    /\ result = Pending
    /\ calls = <<>>
    /\ last = NoLast
    /\ nops = 0
    /\ returns = <<>>
    /\ InitServer
    /\ InitPlayer

NextLong ==
    \/ GetBits
    \/ PeekBits
    \/ SkipBits

SpecLong == InitLong /\ [][NextLong]_vars

(***************************************************************************)
(* get_uvlc and get_svlc called on readers over exponential-Golomb codes.  *)
(***************************************************************************)
\* Code values 0..MaxDenseCode are all among the codes read.
MaxDenseCode == 255

\* The number of leading zeros of the code of value v: 2^z <= v + 1 < 2^(z+1).
uvlc_zeros(v) == CHOOSE z \in 0..31 : Pow2(z) <= v + 1 /\ v + 1 < 2 * Pow2(z)

\* The canonical exponential-Golomb code of v >= 0: z zeros, a one, and the
\* z digits of the offset v - (2^z - 1).
uvlc_bits(v) == Zeros(uvlc_zeros(v)) \o ToBits(v + 1, uvlc_zeros(v) + 1)

\* The zig-zag code value of the signed integer k.
zigzag(k) == IF k > 0 THEN 2 * k - 1 ELSE -2 * k

\* Digits filled up to whole bytes with the digit `pad`, and one byte more.
PadBits(bits, pad) == bits \o Repeat(pad, ((8 - (Len(bits) % 8)) % 8) + 8)

\* The least and the greatest value of every code length up to the cap of
\* leading zeros, the ends of the signed 16-bit range, and the signed values
\* at and next to UVLC_ERROR.
UvlcValues ==
    (0..MaxDenseCode)
    \cup {Pow2(z) - 1 : z \in 0..MAX_UVLC_LEADING_ZEROS}
    \cup {2 * Pow2(z) - 2 : z \in 0..MAX_UVLC_LEADING_ZEROS}
    \cup {zigzag(k) : k \in {-Pow2(15), 1 - Pow2(15), Pow2(15) - 1, Pow2(15) - 2}}
    \cup {zigzag(k) : k \in {UVLC_ERROR - 1, UVLC_ERROR, UVLC_ERROR + 1, -UVLC_ERROR}}

\* Runs of more leading zeros than the cap, with and without a one after.
LongZeroRuns ==
    {Zeros(n) \o tail : n \in {MAX_UVLC_LEADING_ZEROS + 1, MAX_UVLC_LEADING_ZEROS + 2,
                                MAX_UVLC_LEADING_ZEROS + 12},
                        tail \in {<<>>, <<1>>, <<1, 0, 1>>}}

GolombInputs ==
    {PackBytes(PadBits(bits, pad)) :
        bits \in {uvlc_bits(v) : v \in UvlcValues} \cup LongZeroRuns, pad \in {0, 1}}

InitGolomb ==
    /\ ts = <<>>
    /\ pc = "bits"
    /\ i = 0
    /\ nal_data = <<>>
    /\ start_of_nal = FALSE
    /\ new_nal_data = None
    /\ \E buf \in GolombInputs : reader = BitReader(buf)
    /\ sei = SEI_6DOF
    /\ fov_info_array = <<>>
    /\ decoded = None
    /\ result = Pending
    /\ calls = <<>>
    /\ last = NoLast
    /\ nops = 0
    /\ returns = <<>>
    /\ InitServer
    /\ InitPlayer

NextGolomb ==
    \/ GetUvlc
    \/ GetSvlc

SpecGolomb == InitGolomb /\ [][NextGolomb]_vars

(***************************************************************************)
(* get_bits(n) and then get_bits(32 - n) called on a fresh reader over a   *)
(* 4-byte buffer.                                                          *)
(***************************************************************************)
WordBytes == {0, 1, 128, 165, 255}

WordInputs == [1..4 -> WordBytes]

InitWord ==
    /\ ts = <<>>
    /\ pc = "bits"
    /\ i = 0
    /\ nal_data = <<>>
    /\ start_of_nal = FALSE
    /\ new_nal_data = None
    /\ \E buf \in WordInputs : reader = BitReader(buf)
    /\ sei = SEI_6DOF
    /\ fov_info_array = <<>>
    /\ decoded = None
    /\ result = Pending
    /\ calls = <<>>
    /\ last = NoLast
    /\ nops = 0
    /\ returns = <<>>
    /\ InitServer
    /\ InitPlayer

\* The first call: get_bits(n), n in 1..32.
GetHigh ==
    /\ nops = 0
    /\ \E n \in 1..32 : Called("get_bits", n, get_bits(reader, n))

\* The second call: get_bits(32 - n).
GetLow ==
    /\ nops = 1
    /\ Called("get_bits", 32 - last.n, get_bits(reader, 32 - last.n))

NextWord ==
    \/ GetHigh
    \/ GetLow

SpecWord == InitWord /\ [][NextWord]_vars

(***************************************************************************)
(* The state in which neither process_ts_file nor a BitReader is running:  *)
(* the start of the status server's and of the player's runs.              *)
(***************************************************************************)
InitIdle ==
    /\ ts = <<>>
    /\ pc = "idle"
    /\ i = 0
    /\ nal_data = <<>>
    /\ start_of_nal = FALSE
    /\ new_nal_data = None
    /\ reader = NoReader
    /\ sei = SEI_6DOF
    /\ fov_info_array = <<>>
    /\ decoded = None
    /\ result = Pending
    /\ calls = <<>>
    /\ last = NoLast
    /\ nops = 0
    /\ returns = <<>>
    /\ InitServer
    /\ InitPlayer

(***************************************************************************)
(* init_server: calls of update_global_status.                             *)
(***************************************************************************)
Urls == {"a", "b"}

StatusValues == {0, 1, 2}

UpdateGlobalStatus ==
    /\ Len(status_calls) < MaxStatusCalls
    /\ \E url \in Urls, current_pos \in StatusValues, offset \in StatusValues :
          /\ GLOBAL_STATUS' = update_global_status(GLOBAL_STATUS, url, current_pos, offset)
          /\ status_calls' = Append(status_calls,
                 [url |-> url, current_pos |-> current_pos, offset |-> offset])
    /\ UNCHANGED <<pipelineVars, reader, last, nops, returns, playerVars>>

NextStatus == UpdateGlobalStatus

SpecStatus == InitIdle /\ [][NextStatus]_vars

(***************************************************************************)
(* VlcPlayerBase: the load sequence.  The loopback_* and notify_* methods  *)
(* are abstract: a loopback call hands the named stage to the player's own *)
(* command loop, which runs it as a later step; a notify call is recorded. *)
(* The EventWaiter calls on_completed when the awaited event arrives and   *)
(* on_timeout when it does not arrive in time.                             *)
(***************************************************************************)
\* What tracks_get() can return.
AudioTrack ==
    [type |-> "audio", width |-> 0, height |-> 0,
     frame_rate_num |-> 0, frame_rate_den |-> 0]

VideoTracks ==
    [type : {"video"}, width : {0, 1280}, height : {0, 720},
     frame_rate_num : {0, 30}, frame_rate_den : {0, 1}]

TrackLists ==
    {<<>>, <<AudioTrack>>}
        \cup {<<v>> : v \in VideoTracks}
        \cup {<<AudioTrack, v>> : v \in VideoTracks}

CallCount(name) == Cardinality({k \in 1..Len(player_calls) : player_calls[k] = name})

\* load_video(media_input); media_new may return None.
LoadVideo ==
    /\ player_pc \in {"constructed", "loaded", "error"}
    /\ CallCount("load_video") < MaxLoads
    /\ \E is_live \in BOOLEAN, media_ok \in BOOLEAN :
          /\ media_input' = Some([is_live |-> is_live, length |-> None])
          /\ IF media_ok
             THEN /\ player_calls' = player_calls \o <<"load_video">>
                  /\ player_pc' = "parsing"
             ELSE /\ player_calls' = player_calls \o <<"load_video", "notify_error">>
                  /\ player_pc' = "error"
    /\ UNCHANGED <<pipelineVars, reader, last, nops, returns, serverVars,
                   media_track, media_track_extract_attempted>>

\* cb_parse_changed(event).
CbParseChanged ==
    /\ player_pc = "parsing"
    /\ \E new_status \in {"skipped", "done", "failed", "timeout"}, tracks \in TrackLists :
          LET r == IF new_status = "done"
                   THEN init_media_track(media_track, media_input[1], tracks)
                   ELSE [media_track |-> media_track, media_input |-> media_input[1]]
          IN  /\ media_track' = r.media_track
              /\ media_input' = Some(r.media_input)
              /\ IF new_status \in {"skipped", "done"}
                 THEN /\ player_calls' = player_calls
                             \o <<"cb_parse_changed",
                                  "loopback_load_video_st2_set_parsed_media">>
                      /\ player_pc' = "st2"
                 ELSE /\ player_calls' = player_calls
                             \o <<"cb_parse_changed", "notify_error">>
                      /\ player_pc' = "error"
    /\ UNCHANGED <<pipelineVars, reader, last, nops, returns, serverVars,
                   media_track_extract_attempted>>

\* load_video_st2_set_parsed_media().
LoadVideoSt2 ==
    /\ player_pc = "st2"
    /\ player_calls' = player_calls
           \o <<"load_video_st2_set_parsed_media", "async_wait_for buffering">>
    /\ player_pc' = "buffering"
    /\ UNCHANGED <<pipelineVars, reader, last, nops, returns, serverVars,
                   media_track, media_input, media_track_extract_attempted>>

\* The awaited event arrives: on_completed, which in both waits is
\* loopback_load_video_st3_extract_media_track.
WaiterCompleted ==
    /\ player_pc \in {"buffering", "time_changed"}
    /\ player_calls' = player_calls
           \o <<"loopback_load_video_st3_extract_media_track">>
    /\ player_pc' = "st3"
    /\ UNCHANGED <<pipelineVars, reader, last, nops, returns, serverVars,
                   media_track, media_input, media_track_extract_attempted>>

\* The awaited event does not arrive: on_timeout, which is notify_error.
WaiterTimeout ==
    /\ player_pc \in {"buffering", "time_changed"}
    /\ player_calls' = player_calls \o <<"notify_error">>
    /\ player_pc' = "error"
    /\ UNCHANGED <<pipelineVars, reader, last, nops, returns, serverVars,
                   media_track, media_input, media_track_extract_attempted>>

\* load_video_st3_extract_media_track().
LoadVideoSt3 ==
    /\ player_pc = "st3"
    /\ \E tracks \in TrackLists :
          LET r == init_media_track(media_track, media_input[1], tracks)
              o == load_video_st3_outcome(r.media_track, media_track_extract_attempted)
          IN  /\ media_track' = r.media_track
              /\ media_input' = Some(r.media_input)
              /\ media_track_extract_attempted' =
                     IF o = "wait" THEN TRUE ELSE media_track_extract_attempted
              /\ player_calls' = player_calls
                     \o <<"load_video_st3_extract_media_track",
                          CASE o = "error" -> "notify_error"
                            [] o = "wait" -> "async_wait_for time_changed"
                            [] OTHER -> "loopback_load_video_st4_loaded">>
              /\ player_pc' = CASE o = "error" -> "error"
                                [] o = "wait" -> "time_changed"
                                [] OTHER -> "st4"
    /\ UNCHANGED <<pipelineVars, reader, last, nops, returns, serverVars>>

\* load_video_st4_loaded(); _try_set_initial_state() can time out.
LoadVideoSt4 ==
    /\ player_pc = "st4"
    /\ \E state_set \in BOOLEAN :
          IF state_set
          THEN /\ player_calls' = player_calls
                      \o <<"load_video_st4_loaded", "notify_load_video_done">>
               /\ player_pc' = "loaded"
          ELSE /\ player_calls' = player_calls
                      \o <<"load_video_st4_loaded", "notify_error">>
               /\ player_pc' = "error"
    /\ UNCHANGED <<pipelineVars, reader, last, nops, returns, serverVars,
                   media_track, media_input, media_track_extract_attempted>>

NextPlayer ==
    \/ LoadVideo
    \/ CbParseChanged
    \/ LoadVideoSt2
    \/ WaiterCompleted
    \/ WaiterTimeout
    \/ LoadVideoSt3
    \/ LoadVideoSt4

SpecPlayer == InitIdle /\ [][NextPlayer]_vars

(***************************************************************************)
(* Properties.                                                             *)
(***************************************************************************)
\* The first n digits a reader would deliver if reads past the end of the
\* buffer gave zeros.
ZeroFilled(r, n) == SubSeq(UnreadDigits(r) \o Zeros(n), 1, n)

\* C1: a get_bits(n), peek_bits(n) or skip_bits(n) call, 1 <= n <= 32, made
\* when fewer than n unread bits remain completes normally, and a value it
\* returns is the unread bits followed by zeros.
C1_ShortReadCompletes ==
    (/\ last.op \in {"get_bits", "peek_bits", "skip_bits"}
     /\ last.n \in 1..32
     /\ UnreadBits(last.before) >= 0
     /\ UnreadBits(last.before) < last.n)
    => /\ last.exc = "none"
       /\ last.op # "skip_bits" => last.val = ZeroFilled(last.before, last.n)

\* process_ts_file has ended by raising.
ProcessRaised == pc = "done" /\ result.kind = "raise"

\* C2: for every input process_ts_file ends by returning a value (the
\* decoded record or None) and never raises, a located block shorter than
\* its declared layout included.
C2_ProcessAlwaysReturns == pc = "done" => result.kind = "return"

\* extract_h265_nal_from_ts has ended by raising.
ExtractRaised == ProcessRaised /\ calls = <<"extract_h265_nal_from_ts">>

\* C3: on an input whose length is not a multiple of 188 the demuxer returns
\* a byte sequence without raising, and process_ts_file returns None when
\* that sequence is empty.
C3_TruncatedInputNotFatal ==
    (Len(ts) % TS_PACKET_SIZE # 0)
    => /\ ~ExtractRaised
       /\ (pc = "done" /\ nal_data = <<>>) => result = Returned(None)

\* read_sei_6dof has ended: it returned, or it raised.
DecodeReturned == pc = "decoded"

DecodeRaised ==
    /\ ProcessRaised
    /\ calls # <<>>
    /\ calls[Len(calls)] = "read_sei_6dof"

\* Bits the reader has delivered.
Consumed(r) == 8 * Len(r.data) - UnreadBits(r)

\* Every field of steps 2-6 of record s holds a value read from the stream.
FullyPopulated(s) ==
    /\ s.stitching_layout \in 0..3
    /\ s.camera_number \in 0..65535
    /\ s.camera_model \in 0..3
    /\ s.camera_resolution_x \in 0..65535
    /\ s.camera_resolution_y \in 0..65535
    /\ s.video_resolution_x \in 0..65535
    /\ s.video_resolution_y \in 0..65535
    /\ s.texture_padding_size \in 0..255
    /\ s.background_texture_flag \in 0..1
    /\ s.background_depth_flag \in 0..1
    /\ s.arrangement_flag \in 0..1
    /\ s.horizontal_half_fov \in 0..255

\* C4: read_sei_6dof ends, for every input, in one of two ways: it returns
\* a record whose tag matched, fully populated and with its complete
\* FieldOfView sequence, or it returns no record and an empty sequence; a
\* tag mismatch ends the second way with only the 16 tag bytes read.
C4_RecordFullOrAbsent ==
    (DecodeReturned \/ DecodeRaised)
    => /\ decoded # None
       /\ \/ /\ decoded[1].sei # None
             /\ is_valid(decoded[1].sei[1])
             /\ FullyPopulated(decoded[1].sei[1])
             /\ Len(decoded[1].fov[1]) = decoded[1].sei[1].camera_number
          \/ /\ decoded[1].sei = None
             /\ decoded[1].fov = Some(<<>>)
       /\ ~is_valid(sei) => /\ decoded[1].sei = None
                            /\ Consumed(reader) = 128

\* C5: a valid record returned by read_sei_6dof comes with exactly
\* camera_number FieldOfViews, the k-th with id k (none when camera_number
\* is 0); a decode that is not valid comes with an empty sequence.
C5_FovCountAndIds ==
    DecodeReturned
    => LET d == decoded[1] IN
       IF d.sei # None /\ is_valid(d.sei[1])
       THEN /\ Len(d.fov[1]) = d.sei[1].camera_number
            /\ \A k \in 1..Len(d.fov[1]) : d.fov[1][k].id = k
       ELSE d.fov = Some(<<>>)

\* C5's case: a valid record declaring two cameras has been returned.
C5_Witness ==
    /\ DecodeReturned
    /\ decoded[1].sei # None
    /\ decoded[1].sei[1].camera_number = 2
    /\ Len(decoded[1].fov[1]) = 2

\* The j-th 16-bit corner coordinate of camera k as encoded in the buffer
\* the reader is over: 128 tag bits, 112 header bits, 72 bits per camera,
\* each coordinate followed by a marker bit.
Corner(k, j) ==
    LET off == 128 + 112 + 72 * (k - 1) + 17 * (j - 1)
    IN  Val(SubSeq(BitsOf(reader.data), off + 1, off + 16))

\* C6 as stated: every FieldOfView produced has x, y, width and height all
\* non-negative, whatever the four corner coordinates.
C6_AllNonNegative ==
    \A k \in 1..Len(fov_info_array) :
        /\ fov_info_array[k].x >= 0
        /\ fov_info_array[k].y >= 0
        /\ fov_info_array[k].width >= 0
        /\ fov_info_array[k].height >= 0

\* C6 amended: x and y are the top-left coordinates, non-negative and below
\* 2^16; width and height are the differences bottom-right minus top-left,
\* between -65535 and 65535, and non-negative exactly when the bottom-right
\* coordinate is not below the top-left one.
C6_SignFollowsCorners ==
    \A k \in 1..Len(fov_info_array) :
        LET f == fov_info_array[k] IN
        /\ f.x = Corner(k, 1) /\ f.x \in 0..65535
        /\ f.y = Corner(k, 2) /\ f.y \in 0..65535
        /\ f.width = Corner(k, 3) - Corner(k, 1)
        /\ f.height = Corner(k, 4) - Corner(k, 2)
        /\ f.width \in -65535..65535
        /\ f.height \in -65535..65535
        /\ (f.width >= 0) <=> (Corner(k, 3) >= Corner(k, 1))
        /\ (f.height >= 0) <=> (Corner(k, 4) >= Corner(k, 2))

\* C6's case: a returned FieldOfView with a negative width.
C6_Witness ==
    /\ DecodeReturned
    /\ \E k \in 1..Len(fov_info_array) :
          fov_info_array[k].width < 0 /\ Corner(k, 3) < Corner(k, 1)

\* The k-th packet of the input (k from 1), and the number of packets.
Pkt(k) == Slice(ts, TS_PACKET_SIZE * (k - 1), TS_PACKET_SIZE * k)

NumPackets == (Len(ts) + TS_PACKET_SIZE - 1) \div TS_PACKET_SIZE

\* Packet p begins with the sync byte and carries the target PID.
IsTargetPacket(p) ==
    /\ Len(p) >= 3
    /\ p[1] = 71
    /\ (p[2] % 32) * 256 + p[3] = 256

\* 00 00 01 stands at positions a..a+2 of s.
StartCodeAt(s, a) ==
    /\ a >= 1
    /\ a + 2 <= Len(s)
    /\ s[a] = 0 /\ s[a + 1] = 0 /\ s[a + 2] = 1

\* The input is whole packets, each of a kind of PacketKinds, so that the
\* payload of the k-th is Fill(k) bytes after any PES header.
FilledPackets ==
    /\ Len(ts) % TS_PACKET_SIZE = 0
    /\ \A k \in 1..NumPackets : \E kd \in PacketKinds : Pkt(k) = Packet(kd, k)

\* The bytes of nal_data that are no start-code bytes.
PayloadPart == SelectSeq(nal_data, LAMBDA b : b \notin {0, 1})

\* C7: on whole packets of interleaved PIDs whose payload bytes name their
\* packet (Fill), every byte of the demuxer's output outside the start
\* codes 00 00 01 is a payload byte of a packet with sync byte and PID
\* 0x100, and these bytes come in the order of their packets.
C7_OnlyTargetPayloadInOrder ==
    FilledPackets
    => LET part == PayloadPart
           owners == {k \in 1..NumPackets : IsTargetPacket(Pkt(k))}
       IN
       /\ \A q \in 1..Len(part) : \E k \in owners : part[q] = Fill(k)
       /\ \A q \in 1..(Len(part) - 1) : part[q] <= part[q + 1]
       /\ \A q \in 1..Len(nal_data) :
             nal_data[q] \in {0, 1}
             => \E a \in {q - 2, q - 1, q} : StartCodeAt(nal_data, a)

\* C7's case: target, other-PID and target packets interleaved, demuxed, the
\* payloads of the first and the third in the output.
C7_Witness ==
    /\ FilledPackets
    /\ NumPackets = 3
    /\ i >= Len(ts)
    /\ IsTargetPacket(Pkt(1))
    /\ Pkt(2)[1] = 71 /\ ~IsTargetPacket(Pkt(2))
    /\ IsTargetPacket(Pkt(3))
    /\ nal_data # <<>>
    /\ nal_data[1] = Fill(1)
    /\ nal_data[Len(nal_data)] = Fill(3)

\* Packet p is a target packet with the payload-unit-start bit set.
StartPacket(p) == IsTargetPacket(p) /\ (p[2] \div 64) % 2 = 1

\* The payload start of p (4, or 5 plus the adaptation length) is below 188.
CarriesPayload(p) ==
    /\ Len(p) >= 4
    /\ (p[4] \div 32) % 2 = 1 => Len(p) >= 5 /\ 5 + p[5] < 188

\* a is empty or the last Len(a) bytes of packet p, all after its header.
IsPayloadTail(a, p) ==
    \/ a = <<>>
    \/ /\ Len(a) <= Len(p) - 4
       /\ a = SubSeq(p, Len(p) - Len(a) + 1, Len(p))

\* What a step of the demuxer appended to nal_data.
Added == SubSeq(nal_data', Len(nal_data) + 1, Len(nal_data'))

\* A step of the demuxer over the packet at offset i: nal_data only grows;
\* when `starts` holds of the packet and of an earlier one, what is added is
\* 00 00 01 followed by bytes of the packet, else bytes of the packet only.
StartCodeRule(starts(_)) ==
    (pc = "extract" /\ i' = i + TS_PACKET_SIZE)
    => LET k == i \div TS_PACKET_SIZE + 1 IN
       /\ Len(nal_data') >= Len(nal_data)
       /\ SubSeq(nal_data', 1, Len(nal_data)) = nal_data
       /\ IF starts(Pkt(k)) /\ \E j \in 1..(k - 1) : starts(Pkt(j))
          THEN /\ StartCodeAt(Added, 1)
               /\ IsPayloadTail(SubSeq(Added, 4, Len(Added)), Pkt(k))
          ELSE IsPayloadTail(Added, Pkt(k))

\* C8 as stated: of the target packets with payload-unit-start set, the
\* first adds no start code, every later one adds exactly one 00 00 01 where
\* its contribution begins, and no other packet adds one.
C8_StartCodeAtEveryLaterStart == [][StartCodeRule(StartPacket)]_vars

\* C8 amended: the same of the target packets with payload-unit-start set
\* whose payload start (4, or 5 plus the adaptation length) is below 188; a
\* start packet whose adaptation field leaves no payload adds nothing and
\* does not count as a unit start.
C8_StartCodeAtLaterPayloadStart ==
    [][StartCodeRule(LAMBDA p : StartPacket(p) /\ CarriesPayload(p))]_vars

\* C8's case: a start packet without payload, then two start packets with
\* payload, demuxed: the second contributes first, the third after 00 00 01.
C8_Witness ==
    /\ NumPackets = 3
    /\ i >= Len(ts)
    /\ pc # "done"
    /\ StartPacket(Pkt(1)) /\ ~CarriesPayload(Pkt(1))
    /\ StartPacket(Pkt(2)) /\ CarriesPayload(Pkt(2))
    /\ StartPacket(Pkt(3)) /\ CarriesPayload(Pkt(3))
    /\ nal_data = SliceFrom(Pkt(2), 4) \o <<0, 0, 1>> \o SliceFrom(Pkt(3), 4)

\* C9: when no packet of the input has both the sync byte and PID 0x100, the
\* demuxer returns an empty buffer without raising and process_ts_file
\* returns None having called neither the locator, BitReader nor the decoder.
C9_NoTargetPacketNotFound ==
    (\A k \in 1..NumPackets : ~IsTargetPacket(Pkt(k)))
    => /\ ~ExtractRaised
       /\ nal_data = <<>>
       /\ calls = <<"extract_h265_nal_from_ts">>
       /\ pc = "done" => result = Returned(None)

\* The offsets at which the 16-byte tag occurs in nal.
TagOffsets(nal) ==
    {k \in 0..(Len(nal) - 16) : \A j \in 1..16 : nal[k + j] = EXTENSION_STRING[j]}

\* find_6dof_extension_in_nal has been called.
FindCalled == Len(calls) >= 2

\* C10: find_6dof_extension_in_nal returns None exactly when the tag occurs
\* nowhere in the buffer (a 15-byte or corrupted tag is no occurrence), and
\* otherwise the suffix of the buffer from the lowest offset of the tag.
C10_SuffixAtFirstOccurrence ==
    FindCalled
    => /\ new_nal_data = None <=> TagOffsets(nal_data) = {}
       /\ new_nal_data # None
          => LET k == Len(nal_data) - Len(new_nal_data[1]) IN
             /\ k \in TagOffsets(nal_data)
             /\ \A j \in TagOffsets(nal_data) : k <= j
             /\ new_nal_data[1] = SliceFrom(nal_data, k)
             /\ SubSeq(new_nal_data[1], 1, 16) = EXTENSION_STRING

\* C10's case: the tag occurs twice after a leading byte and the suffix
\* returned starts at the first occurrence.
C10_Witness ==
    /\ FindCalled
    /\ Cardinality(TagOffsets(nal_data)) = 2
    /\ new_nal_data # None
    /\ Len(nal_data) - Len(new_nal_data[1]) = 1

\* The p-th binary digit (from 1) of byte sequence buf, and the integer the
\* w digits after the first `off` digits denote.
DigitAt(buf, p) == (buf[(p - 1) \div 8 + 1] \div Pow2(7 - ((p - 1) % 8))) % 2

FieldAt(buf, off, w) == Val([k \in 1..w |-> DigitAt(buf, off + k)])

\* buf is a well-formed extension block: the tag, the header fields and the
\* cameras the header declares (72 bits each), whatever follows.
WellFormedBlock(buf) ==
    /\ Len(buf) >= 30
    /\ SubSeq(buf, 1, 16) = EXTENSION_STRING
    /\ Len(buf) >= 30 + 9 * FieldAt(buf, 130, 16)

\* The fields of a well-formed block by their positions: 128 tag bits, then
\* 2, 16, 2, marker, 16, marker, 16, marker, 16, marker, 16, marker, 8, 1, 1,
\* marker, 1, 8 and 3 reserved bits.
EncodedSei(buf) ==
    [is_valid |-> TRUE,
     stitching_layout |-> FieldAt(buf, 128, 2),
     camera_number |-> FieldAt(buf, 130, 16),
     camera_model |-> FieldAt(buf, 146, 2),
     camera_resolution_x |-> FieldAt(buf, 149, 16),
     camera_resolution_y |-> FieldAt(buf, 166, 16),
     video_resolution_x |-> FieldAt(buf, 183, 16),
     video_resolution_y |-> FieldAt(buf, 200, 16),
     texture_padding_size |-> FieldAt(buf, 217, 8),
     background_texture_flag |-> FieldAt(buf, 225, 1),
     background_depth_flag |-> FieldAt(buf, 226, 1),
     arrangement_flag |-> FieldAt(buf, 228, 1),
     horizontal_half_fov |-> FieldAt(buf, 229, 8)]

\* The FieldOfView of camera k of a well-formed block: the corners are at
\* 240 + 72 (k - 1) + 0, 17, 34 and 51.
EncodedFov(buf, k) ==
    LET off == 240 + 72 * (k - 1)
        tlx == FieldAt(buf, off, 16)
        tly == FieldAt(buf, off + 17, 16)
        brx == FieldAt(buf, off + 34, 16)
        bry == FieldAt(buf, off + 51, 16)
    IN  [id |-> k, x |-> tlx, y |-> tly, width |-> brx - tlx, height |-> bry - tly]

EncodedFovs(buf) == [k \in 1..FieldAt(buf, 130, 16) |-> EncodedFov(buf, k)]

\* read_sei_6dof has been called by process_ts_file and has ended.
DecodeEnded ==
    /\ pc \in {"decoded", "done"}
    /\ calls # <<>>
    /\ calls[Len(calls)] = "read_sei_6dof"

\* C11: on a well-formed extension block read_sei_6dof returns every named
\* field with the value encoded at its position and, per camera, x and y the
\* top-left corner and width and height the corner differences, whatever the
\* marker and reserved bits; process_ts_file returns these as its record;
\* and the two-packet scenario (one camera, corners (0,0)-(960,1080)) gives
\* is_valid true, camera_number 1 and the FieldOfView {1, 0, 0, 960, 1080}.
C11_FieldsAsEncoded ==
    /\ (DecodeEnded /\ WellFormedBlock(reader.data))
       => /\ decoded # None /\ decoded[1].sei # None
          /\ convert_to_json(decoded[1].sei[1], <<>>).sei = EncodedSei(reader.data)
          /\ decoded[1].fov = Some(EncodedFovs(reader.data))
          /\ pc = "done"
             => result = Returned(Some([sei |-> EncodedSei(reader.data),
                                        fov_array |-> EncodedFovs(reader.data)]))
    /\ (pc = "done" /\ ts \in ScenarioInputs)
       => /\ result.kind = "return"
          /\ result.value # None
          /\ result.value[1].sei.is_valid
          /\ result.value[1].sei.camera_number = 1
          /\ result.value[1].fov_array =
                 <<[id |-> 1, x |-> 0, y |-> 0, width |-> 960, height |-> 1080]>>

\* C11's case: process_ts_file has returned the record of the scenario.
C11_Witness ==
    /\ pc = "done"
    /\ ts \in ScenarioInputs
    /\ result.kind = "return"
    /\ result.value # None
    /\ Len(result.value[1].fov_array) = 1

\* The number of zeros a digit sequence begins with.
LeadingZeros(bits) ==
    LET ones == {k \in 1..Len(bits) : bits[k] = 1}
    IN  IF ones = {} THEN Len(bits)
        ELSE (CHOOSE k \in ones : \A j \in ones : k <= j) - 1

\* The digits the last operation found unread, the zeros they begin with,
\* and whether they hold a whole code: z zeros, a one and z more digits.
DigitsBefore == UnreadDigits(last.before)

ZerosBefore == LeadingZeros(DigitsBefore)

WholeCodeBefore == 2 * ZerosBefore + 1 <= Len(DigitsBefore)

CodeBefore == SubSeq(DigitsBefore, 1, 2 * ZerosBefore + 1)

\* The number of bits the last operation consumed.
BitsRead == Consumed(reader) - Consumed(last.before)

\* C12: get_uvlc on bits that begin with more than 20 zeros returns
\* UVLC_ERROR without raising, having read 21 bits; on a whole code of 20 or
\* fewer leading zeros it returns the code's value (the code read as a
\* binary number, minus one), not the sentinel.
C12_LongZeroRunIsError ==
    last.op = "get_uvlc"
    => /\ ZerosBefore > MAX_UVLC_LEADING_ZEROS
          => /\ last.exc = "none"
             /\ last.val = UVLC_ERROR
             /\ BitsRead = MAX_UVLC_LEADING_ZEROS + 1
       /\ (ZerosBefore <= MAX_UVLC_LEADING_ZEROS /\ WholeCodeBefore)
          => /\ last.exc = "none"
             /\ last.val = Val(CodeBefore) - 1
             /\ last.val # UVLC_ERROR
             /\ BitsRead = 2 * ZerosBefore + 1

\* C12's case: get_uvlc has met 22 zeros and returned the sentinel.
C12_Witness ==
    /\ last.op = "get_uvlc"
    /\ ZerosBefore = MAX_UVLC_LEADING_ZEROS + 2
    /\ last.val = UVLC_ERROR

\* C13: get_uvlc on the canonical code of a value v in [0, 2^16) returns v,
\* consumes exactly the 2z+1 bits of the code, and the canonical code of
\* what it returned is the bit pattern it consumed.
C13_UvlcRoundTrip ==
    (/\ last.op = "get_uvlc"
     /\ ZerosBefore <= 16
     /\ WholeCodeBefore
     /\ Val(CodeBefore) - 1 < Pow2(16))
    => /\ last.exc = "none"
       /\ last.val = Val(CodeBefore) - 1
       /\ BitsRead = 2 * ZerosBefore + 1
       /\ uvlc_bits(last.val) = CodeBefore

\* C13's case: the 33-bit code of 65535 has been read.
C13_Witness ==
    /\ last.op = "get_uvlc"
    /\ last.exc = "none"
    /\ last.val = Pow2(16) - 1
    /\ BitsRead = 33

\* v is zigzag(k) for a k in [-2^15, 2^15): odd up to 2^16 - 3 (k > 0) or
\* even up to 2^16 (k <= 0).
IsZigzagOf16Bit(v) ==
    \/ (v % 2) = 1 /\ v <= Pow2(16) - 3
    \/ (v % 2) = 0 /\ v <= Pow2(16)

\* C14: get_svlc on the canonical code of zigzag(k), k in [-2^15, 2^15),
\* returns k: code value 0 gives 0, an odd value v gives (v+1)/2 and an even
\* value v > 0 gives -(v/2).
C14_SvlcInvertsZigzag ==
    (/\ last.op = "get_svlc"
     /\ ZerosBefore <= 16
     /\ WholeCodeBefore
     /\ IsZigzagOf16Bit(Val(CodeBefore) - 1))
    => LET v == Val(CodeBefore) - 1 IN
       /\ last.exc = "none"
       /\ last.val \in (-Pow2(15))..(Pow2(15) - 1)
       /\ zigzag(last.val) = v
       /\ v = 0 => last.val = 0
       /\ (v % 2) = 1 => last.val = (v + 1) \div 2
       /\ (v > 0 /\ (v % 2) = 0) => last.val = -(v \div 2)

\* C14's case: the code of the least signed value has been read.
C14_Witness ==
    /\ last.op = "get_svlc"
    /\ last.exc = "none"
    /\ last.val = -Pow2(15)

\* C15: on a fresh reader over a 4-byte buffer holding the 32-bit value W,
\* get_bits(n) and then get_bits(32 - n), n in 1..32, return a (n digits) and
\* b (32 - n digits) whose digits one after the other are the digits of W,
\* that is a * 2^(32-n) + b = W; for n = 32 the second read returns 0.
C15_SplitReadsConcatenate ==
    /\ nops >= 1
       => /\ last.exc = "none"
          /\ Len(returns) = nops
          /\ returns[1] = SubSeq(BitsOf(reader.data), 1, Len(returns[1]))
    /\ nops = 2
       => /\ Len(returns[1]) \in 1..32
          /\ Len(returns[2]) = 32 - Len(returns[1])
          /\ returns[1] \o returns[2] = BitsOf(reader.data)
          /\ Len(returns[1]) = 32 => Val(returns[2]) = 0
          /\ Len(returns[1]) = 16
             => Val(returns[1]) = 256 * reader.data[1] + reader.data[2]
                /\ Val(returns[2]) = 256 * reader.data[3] + reader.data[4]

\* C15's case: 5 and 27 bits have been read from A5 01 80 FF.
C15_Witness ==
    /\ nops = 2
    /\ reader.data = <<165, 1, 128, 255>>
    /\ returns = <<(<<1, 0, 1, 0, 0>>), SubSeq(BitsOf(reader.data), 6, 32)>>

\* C16: after any sequence of BitReader operations on any buffer, reads past
\* the end included, nextbits_cnt is between 0 and 64.
C16_CountInRange == reader.nextbits_cnt \in 0..64

\* C19: check_rbsp_trailing_bits, called at any read position, returns
\* without raising; it returns true exactly when the next unread bit is 1
\* and every bit after it to the end of the buffer is 0, and false when the
\* stop bit is unset, a trailing bit is set or no unread bit remains.
C19_TrailingBitsVerdict ==
    (last.op = "check_rbsp_trailing_bits" /\ UnreadBits(last.before) >= 0)
    => /\ last.exc = "none"
       /\ last.val = (/\ DigitsBefore # <<>>
                      /\ DigitsBefore[1] = 1
                      /\ \A k \in 2..Len(DigitsBefore) : DigitsBefore[k] = 0)

\* C20: after operations that stayed within the buffer (c bits consumed),
\* skip_to_byte_boundary consumes (8 - c mod 8) mod 8 bits, leaving the
\* number of bits consumed a multiple of 8; it changes nothing when c is
\* one already, and a second call changes nothing.
C20_SkipsToByteBoundary ==
    (last.op = "skip_to_byte_boundary" /\ last.before.nextbits_cnt >= 0)
    => LET c == Consumed(last.before) IN
       /\ last.exc = "none"
       /\ BitsRead = (8 - (c % 8)) % 8
       /\ (Consumed(reader) % 8) = 0
       /\ (c % 8) = 0 => reader = last.before
       /\ skip_to_byte_boundary(reader) =
              [exc |-> "none", val |-> <<>>, r |-> reader]

\* C20's case: 5 bits were consumed and skip_to_byte_boundary skipped 3.
C20_Witness ==
    /\ last.op = "skip_to_byte_boundary"
    /\ last.exc = "none"
    /\ Consumed(last.before) = 5
    /\ BitsRead = 3

\* C17: in process_ts_file, whenever the locator returned a slice, the 16
\* bytes read_sei_6dof reads from the reader over it are the tag, so the
\* decoder never returns its tag-mismatch result and process_ts_file never
\* returns None after decoding.
C17_LocatedTagMatches ==
    /\ pc \in {"reader", "tag"}
       => /\ new_nal_data # None
          /\ Len(new_nal_data[1]) >= 16
          /\ SubSeq(new_nal_data[1], 1, 16) = EXTENSION_STRING
    /\ (calls # <<>> /\ calls[Len(calls)] = "read_sei_6dof")
       => /\ sei.uuid_string = EXTENSION_STRING
          /\ is_valid(sei)
          /\ decoded # None => decoded[1].sei # None
          /\ (pc = "done" /\ result.kind = "return") => result.value # None

\* C17's case: the tag was found after other bytes, the decoder has read
\* it from the slice and process_ts_file has returned a record.
C17_Witness ==
    /\ pc = "done"
    /\ calls # <<>>
    /\ calls[Len(calls)] = "read_sei_6dof"
    /\ Len(new_nal_data[1]) < Len(nal_data)
    /\ is_valid(sei)
    /\ result.kind = "return"
    /\ result.value # None

\* The payload start of a packet of at least 5 bytes, and whether 00 00 01
\* is there.
PayloadStart(p) == IF (p[4] \div 32) % 2 = 1 THEN 5 + p[5] ELSE 4

HasPesSignature(p) == StartCodeAt(p, PayloadStart(p) + 1)

\* A step of the demuxer over a whole target packet whose payload start is
\* in 4..maxStart: the step does not raise, and what it appends (after a
\* start code, if it adds one) is the packet from payload_start + 9 + (low
\* 4 bits of the byte at payload_start + 8) on when the packet has
\* payload-unit-start set and 00 00 01 at its payload start, and the packet
\* from payload_start on otherwise.
PesSkipRule(maxStart) ==
    (pc = "extract" /\ i < Len(ts))
    => LET p == Pkt(i \div TS_PACKET_SIZE + 1) IN
       (/\ Len(p) = TS_PACKET_SIZE
        /\ IsTargetPacket(p)
        /\ PayloadStart(p) \in 4..maxStart)
       => /\ pc' = "extract"
          /\ i' = i + TS_PACKET_SIZE
          /\ LET ps == PayloadStart(p)
                 from == IF StartPacket(p) /\ HasPesSignature(p)
                         THEN IF ps + 9 <= Len(p)
                              THEN ps + 9 + (p[ps + 9] % 16)
                              ELSE Len(p)
                         ELSE ps
                 body == IF from >= Len(p) THEN <<>> ELSE SliceFrom(p, from)
             IN  Added = body \/ Added = <<0, 0, 1>> \o body

\* C18: for every whole target packet with payload-unit-start set and
\* 00 00 01 at its payload start, for every payload start from 4 to 185,
\* the bytes appended are the packet from payload_start + 9 + (low 4 bits of
\* the byte at payload_start + 8) to its end; a packet without the signature
\* or without payload-unit-start is appended from payload_start.
C18_PesHeaderSkipped == [][PesSkipRule(185)]_vars

\* What get_bits(m1) and then get_bits(m2) on reader r raise and return.
TwoReads(r, m1, m2) ==
    LET a == get_bits(r, m1)
        b == get_bits(a.r, m2)
    IN  <<a.exc, a.val, b.exc, b.val>>

\* C21: with at least n unread bits, peek_bits(n) returns what the next
\* get_bits(n) returns and leaves the read position 8 * byte_pos -
\* nextbits_cnt and the unread bits unchanged, also when it refills; reads
\* after the peek return what the same reads return without the peek.
C21_PeekDoesNotConsume ==
    (/\ last.op = "peek_bits"
     /\ last.before.nextbits_cnt >= 0
     /\ UnreadBits(last.before) >= last.n)
    => /\ last.exc = "none"
       /\ last.val = get_bits(reader, last.n).val
       /\ last.val = get_bits(last.before, last.n).val
       /\ 8 * reader.byte_pos - reader.nextbits_cnt
             = 8 * last.before.byte_pos - last.before.nextbits_cnt
       /\ UnreadDigits(reader) = UnreadDigits(last.before)
       /\ \A m1, m2 \in Widths :
             TwoReads(reader, m1, m2) = TwoReads(last.before, m1, m2)

\* C21's case: 33 bits were consumed and peek_bits(32) loaded more bytes.
C21_Witness ==
    /\ last.op = "peek_bits"
    /\ last.n = 32
    /\ last.exc = "none"
    /\ Consumed(last.before) = 33
    /\ reader.byte_pos > last.before.byte_pos

\* C22: get_svlc returns UVLC_ERROR exactly when the unsigned code it read
\* had more than 20 leading zeros; no whole code of at most 20 leading zeros
\* decodes to the sentinel.
C22_SentinelOnlyOnError ==
    (last.op = "get_svlc" /\ last.exc = "none")
    => (last.val = UVLC_ERROR <=> ZerosBefore > MAX_UVLC_LEADING_ZEROS)

\* C23: a read_sei_6dof that returns a record has consumed exactly 128 + 112
\* + 72 * camera_number bits of its fresh reader, a whole number of bytes,
\* and the record and the FieldOfViews it returns are those encoded in these
\* bits, whatever follows them; one that returns no record (tag mismatch)
\* has consumed exactly 128 bits.
C23_ConsumesDeclaredLayout ==
    DecodeReturned
    => IF decoded[1].sei # None
       THEN LET n == decoded[1].sei[1].camera_number IN
            /\ Consumed(reader) = 128 + 112 + 72 * n
            /\ (Consumed(reader) % 8) = 0
            /\ UnreadDigits(reader) = BitsOf(SliceFrom(reader.data, 16 + 14 + 9 * n))
            /\ convert_to_json(decoded[1].sei[1], <<>>).sei = EncodedSei(reader.data)
            /\ decoded[1].fov = Some(EncodedFovs(reader.data))
       ELSE Consumed(reader) = 128

\* C23's case: a record of two cameras was returned with bytes left unread.
C23_Witness ==
    /\ DecodeReturned
    /\ decoded[1].sei # None
    /\ decoded[1].sei[1].camera_number = 2
    /\ Consumed(reader) = 384
    /\ UnreadBits(reader) = 8

\* The urls passed to update_global_status so far.
UrlsPassed == {status_calls[k].url : k \in 1..Len(status_calls)}

\* The most recent update_global_status call for a url that was passed.
LatestCall(url) ==
    status_calls[CHOOSE k \in 1..Len(status_calls) :
        /\ status_calls[k].url = url
        /\ \A j \in (k + 1)..Len(status_calls) : status_calls[j].url # url]

\* C25: after any sequence of update_global_status calls the list has exactly
\* one entry for each url passed and none for any other, and that entry's
\* current_pos and offset are those of the most recent call for the url,
\* whatever integers they are, 0 included.
C25_LatestValuesKept ==
    /\ \A k \in 1..Len(GLOBAL_STATUS) : GLOBAL_STATUS[k].url \in UrlsPassed
    /\ \A url \in UrlsPassed :
          /\ Cardinality(status_items(GLOBAL_STATUS, url)) = 1
          /\ \A k \in status_items(GLOBAL_STATUS, url) :
                /\ GLOBAL_STATUS[k].current_pos = LatestCall(url).current_pos
                /\ GLOBAL_STATUS[k].offset = LatestCall(url).offset

\* The calls a step of the load sequence adds to player_calls.
CallsAdded == SubSeq(player_calls', Len(player_calls) + 1, Len(player_calls'))

\* The invocations of load_video_st3_extract_media_track so far that found
\* no media track: they went on to wait or to report the error.
MissesSoFar ==
    Cardinality({k \in 1..(Len(player_calls) - 1) :
        /\ player_calls[k] = "load_video_st3_extract_media_track"
        /\ player_calls[k + 1] # "loopback_load_video_st4_loaded"})

\* What a step of the load sequence does, as C24 has it.
LoadStepRule ==
    /\ (player_pc = "st3" /\ media_track' = None /\ MissesSoFar = 0) =>
          /\ media_track_extract_attempted'
          /\ player_pc' = "time_changed"
          /\ CallsAdded = <<"load_video_st3_extract_media_track",
                            "async_wait_for time_changed">>
    /\ (player_pc = "st3" /\ media_track' = None /\ MissesSoFar > 0) =>
          /\ player_pc' = "error"
          /\ CallsAdded = <<"load_video_st3_extract_media_track", "notify_error">>
    /\ (\E k \in 1..Len(CallsAdded) : CallsAdded[k] = "loopback_load_video_st4_loaded")
          => /\ player_pc = "st3"
             /\ media_track' # None
    /\ media_track # None => media_track' = media_track

\* The retry is scheduled at most once, it is what the time_changed wait
\* runs when the event arrives, and stage 4 runs with a media track.
LoadHistoryRule ==
    /\ CallCount("async_wait_for time_changed") <= 1
    /\ \A k \in 1..(Len(player_calls) - 1) :
          player_calls[k] = "async_wait_for time_changed" =>
              player_calls[k + 1] \in {"loopback_load_video_st3_extract_media_track",
                                       "notify_error"}
    /\ player_pc = "time_changed" => media_track_extract_attempted
    /\ player_pc \in {"st4", "loaded"} => media_track # None

\* C24: load_video_st3_extract_media_track retries at most once, on a
\* time_changed event: its first invocation that finds no media track sets the
\* attempted flag and schedules one retry, a later one that still finds none
\* reports an error and schedules nothing, loopback_load_video_st4_loaded is
\* called only with media_track set, and a media_track once set is never
\* replaced.
C24_RetriesAtMostOnce == [][LoadStepRule]_vars /\ []LoadHistoryRule

\* C24 witness: the retry ran after the time_changed wait, still found no
\* media track and reported the error.
C24_Witness ==
    /\ player_pc = "error"
    /\ media_track = None
    /\ media_track_extract_attempted
    /\ MissesSoFar = 2
    /\ \E k \in 1..(Len(player_calls) - 3) :
          /\ player_calls[k] = "async_wait_for time_changed"
          /\ player_calls[k + 1] = "loopback_load_video_st3_extract_media_track"
          /\ player_calls[k + 2] = "load_video_st3_extract_media_track"
          /\ player_calls[k + 3] = "notify_error"

====
